---- MODULE Spec2Model ----
(***************************************************************************)
(* Model of fileSystemMCP.py: the JSON-RPC request handler of the local    *)
(* filesystem MCP server, its path sandbox, its filesystem tools and its   *)
(* patch applier.                                                          *)
(*                                                                         *)
(* Text is modelled as a sequence of lexemes.  A lexeme is one character   *)
(* ("a", "/", ".", " ", "\n") or one of the three patch markers, which no  *)
(* other lexeme can overlap.  Offsets are Python's: 0-based, -1 = absent.  *)
(* Paths are texts; the filesystem maps canonical absolute paths to nodes. *)
(***************************************************************************)
EXTENDS Integers, Sequences, FiniteSets, TLC

VARIABLES
  fs,        \* the filesystem: canonical path -> node
  conn,      \* where the server's one thread is: "idle" (in serve_forever),
             \* "received" (a request is read), "responded", and in the
             \* heartbeat loop "sleeping" or "pinging"
  request,   \* the request being handled
  doc,       \* the patch document the request's patch text was written from
  response,  \* the HTTP status and JSON body sent
  call,      \* the record of the handling: filesystem before, handlers run, ...
  served,    \* the number of requests answered
  environ,   \* os.environ of the server process
  stream,    \* the event stream: its peer, whether a write to it has failed
  waiting    \* the request of a connection made but not yet accepted

vars == <<fs, conn, request, doc, response, call, served, environ, stream, waiting>>

\* ------------------------------------------------------------------ bounds

\* Number of requests the clients send in one run.
MaxRequests == 2

\* Number of update sections a generated patch text holds.
MaxSections == 3

\* ------------------------------------------------------------- text (str)

NL == "\n"
SP == " "
SEP == "/"

\* s[lo:hi] for 0 <= lo, hi <= len(s)
Slice(s, lo, hi) == SubSeq(s, lo + 1, hi)

\* s.startswith(pre)
StartsWith(s, pre) == Len(s) >= Len(pre) /\ SubSeq(s, 1, Len(pre)) = pre

\* s.find(sub, from): the lowest offset >= from where sub occurs, else -1
RECURSIVE find(_, _, _)
find(s, sub, from) ==
  IF from + Len(sub) > Len(s) THEN -1
  ELSE IF SubSeq(s, from + 1, from + Len(sub)) = sub THEN from
  ELSE find(s, sub, from + 1)

RECURSIVE lstrip(_, _)
lstrip(s, chars) ==
  IF s # <<>> /\ Head(s) \in chars THEN lstrip(Tail(s), chars) ELSE s

RECURSIVE rstrip(_, _)
rstrip(s, chars) ==
  IF s # <<>> /\ s[Len(s)] \in chars THEN rstrip(SubSeq(s, 1, Len(s) - 1), chars) ELSE s

\* s.strip(chars); s.strip() is strip(s, Whitespace)
strip(s, chars) == rstrip(lstrip(s, chars), chars)

Whitespace == {SP, NL}

\* ------------------------------------------------------------ paths (Path)

\* The parts of a path text between separators.
RECURSIVE Split(_, _, _)
Split(s, cur, acc) ==
  IF s = <<>> THEN Append(acc, cur)
  ELSE IF Head(s) = SEP THEN Split(Tail(s), <<>>, Append(acc, cur))
  ELSE Split(Tail(s), Append(cur, Head(s)), acc)

\* Path.resolve() on the parts: "" and "." vanish, ".." drops the part before
\* it (and is dropped at "/").  The filesystem holds no symbolic links.
RECURSIVE Normalize(_, _)
Normalize(parts, acc) ==
  IF parts = <<>> THEN acc
  ELSE LET p == Head(parts) IN
       IF p = <<>> \/ p = <<".">> THEN Normalize(Tail(parts), acc)
       ELSE IF p = <<".", ".">>
            THEN Normalize(Tail(parts), IF acc = <<>> THEN acc ELSE SubSeq(acc, 1, Len(acc) - 1))
            ELSE Normalize(Tail(parts), Append(acc, p))

\* str() of an absolute path with these parts
RECURSIVE Join(_)
Join(parts) ==
  IF parts = <<>> THEN <<SEP>>
  ELSE IF Len(parts) = 1 THEN <<SEP>> \o parts[1]
  ELSE Join(SubSeq(parts, 1, Len(parts) - 1)) \o <<SEP>> \o parts[Len(parts)]

Parts(abs) == Normalize(Split(abs, <<>>, <<>>), <<>>)

\* Path(abs).resolve() for an absolute path text
resolve(abs) == Join(Parts(abs))

\* os.path.isabs
isabs(s) == s # <<>> /\ Head(s) = SEP

\* path.parent of a canonical path
parent(p) ==
  LET ps == Parts(p) IN IF ps = <<>> THEN p ELSE Join(SubSeq(ps, 1, Len(ps) - 1))

\* The Sandbox Root, "/r": sys.argv[1] resolved at startup.
allowed_directory == <<SEP, "r">>

\* base / rel
Div(base, rel) == base \o <<SEP>> \o rel

\* q is p or lies below p, by path components
Under(q, p) == q = p \/ StartsWith(q, IF p = <<SEP>> THEN p ELSE p \o <<SEP>>)

\* path.relative_to(allowed_directory), as str: "." for the root itself.
\* Defined where Under(p, allowed_directory); elsewhere the call raises.
relative_to(p) ==
  IF p = allowed_directory THEN <<".">>
  ELSE Slice(p, Len(allowed_directory) + 1, Len(p))

\* ------------------------------------------------------------- exceptions

Ok(v) == [ok |-> TRUE, val |-> v]
Raise(type, msg) == [ok |-> FALSE, type |-> type, msg |-> msg]

\* -------- security --------
validate_path(user_path) ==
  LET abs_path == IF isabs(user_path) THEN resolve(user_path)
                  ELSE resolve(Div(allowed_directory, user_path))
  IN IF ~StartsWith(abs_path, allowed_directory)
     THEN Raise("PermissionError", "Path outside allowed directory")
     ELSE Ok(abs_path)

\* ------------------------------------------------------------- filesystem

\* A node of the tree: a directory, or a regular file holding text.
DirNode == [dir |-> TRUE, text |-> <<>>]
FileNode(text) == [dir |-> FALSE, text |-> text]

\* path.exists(), path.is_dir()
exists(f, p) == p \in DOMAIN f
is_dir(f, p) == p \in DOMAIN f /\ f[p].dir

\* p and every path above it, up to "/"
Lineage(p) == {Join(SubSeq(Parts(p), 1, k)) : k \in 0..Len(Parts(p))}

\* path.mkdir(parents=True, exist_ok=True)
mkdir(f, p) ==
  IF exists(f, p)
  THEN IF f[p].dir THEN Ok(f) ELSE Raise("FileExistsError", "File exists")
  ELSE IF \E q \in Lineage(p) : exists(f, q) /\ ~f[q].dir
       THEN Raise("NotADirectoryError", "Not a directory")
       ELSE Ok([q \in DOMAIN f \cup Lineage(p) |-> IF q \in DOMAIN f THEN f[q] ELSE DirNode])

\* path.write_text(text, encoding="utf-8")
write_text(f, p, text) ==
  IF is_dir(f, p) THEN Raise("IsADirectoryError", "Is a directory")
  ELSE IF ~exists(f, parent(p)) THEN Raise("FileNotFoundError", "No such file or directory")
  ELSE IF ~is_dir(f, parent(p)) THEN Raise("NotADirectoryError", "Not a directory")
  ELSE Ok([q \in DOMAIN f \cup {p} |-> IF q = p THEN FileNode(text) ELSE f[q]])

\* Only the directory itself removed, its descendants left behind
rmtree_top(f, p) == [q \in DOMAIN f \ {p} |-> f[q]]

\* shutil.rmtree(path)
rmtree(f, p) == [q \in {x \in DOMAIN f : ~Under(x, p)} |-> f[q]]

\* path.unlink()
unlink(f, p) == [q \in DOMAIN f \ {p} |-> f[q]]

\* What a tool handler leaves behind: the filesystem, its return value or the
\* exception it raised, and (for the record) the paths validate_path returned
\* to it, the files apply_patch wrote and the child processes shell started.
Outcome(f, out, seen, writes) ==
  [fs |-> f, out |-> out, seen |-> seen, writes |-> writes, spawned |-> <<>>]

\* dict.get(key, default); a dict is a function on the keys it holds
get(d, k, default) == IF k \in DOMAIN d THEN d[k] ELSE default

\* -------- Filesystem tools --------
handle_write_file(f, dest, content) ==
  IF dest = <<>> THEN Outcome(f, Raise("ValueError", "File path is required"), <<>>, <<>>)
  ELSE LET path == validate_path(dest) IN
    IF ~path.ok THEN Outcome(f, path, <<>>, <<>>)
    ELSE LET made == mkdir(f, parent(path.val)) IN
      IF ~made.ok THEN Outcome(f, made, <<path.val>>, <<>>)
      ELSE LET wrote == write_text(made.val, path.val, content) IN
        IF ~wrote.ok THEN Outcome(made.val, wrote, <<path.val>>, <<>>)
        ELSE Outcome(wrote.val, Ok([success |-> TRUE, path |-> dest]),
                     <<path.val>>, <<>>)

handle_create_directory(f, p) ==
  IF p = <<>> THEN Outcome(f, Raise("ValueError", "Directory path is required"), <<>>, <<>>)
  ELSE LET path == validate_path(p) IN
    IF ~path.ok THEN Outcome(f, path, <<>>, <<>>)
    ELSE LET made == mkdir(f, path.val) IN
      IF ~made.ok THEN Outcome(f, made, <<path.val>>, <<>>)
      ELSE Outcome(made.val, Ok([success |-> TRUE, path |-> p]),
                   <<path.val>>, <<>>)

handle_delete_file(f, p) ==
  IF p = <<>> THEN Outcome(f, Raise("ValueError", "Path is required"), <<>>, <<>>)
  ELSE LET path == validate_path(p) IN
    IF ~path.ok THEN Outcome(f, path, <<>>, <<>>)
    ELSE IF ~exists(f, path.val)
      THEN Outcome(f, Raise("ValueError", "Path does not exist"), <<path.val>>, <<>>)
      ELSE IF is_dir(f, path.val)
        THEN Outcome(rmtree(f, path.val),
                     Ok([success |-> TRUE, path |-> p, type |-> "directory"]),
                     <<path.val>>, <<>>)
        ELSE Outcome(unlink(f, path.val),
                     Ok([success |-> TRUE, path |-> p, type |-> "file"]),
                     <<path.val>>, <<>>)

\* -------- Codex-style tool impls --------

\* The three markers of a patch text, each one lexeme.
begin == <<"*** Begin Patch">>
end == <<"*** End Patch">>
update_hdr == <<"*** Update File:">>

\* The running state of handle_apply_patch: the filesystem so far, the list
\* `updated`, the exception that ended the call if one did, and the record of
\* validated paths and of files written (path, text, offset of the section's
\* header in the patch text).
PatchState(f) == [fs |-> f, updated |-> <<>>, exc |-> Ok(TRUE), seen |-> <<>>, writes |-> <<>>]

\* updated.insert(0, rel): the list in reverse order of application
prepend_updated(updated, rel) == <<rel>> \o updated

\* updated.append(rel)
append_updated(updated, rel) == Append(updated, rel)

RECURSIVE update_sections(_, _, _, _)

\* One section once its path is validated: the parent directories, the write,
\* the entry of `updated`, and on to the section at next_pos.  at is the
\* offset of the section's header in the patch text.
write_section(block, next_pos, base, st, at, file_path, new_content) ==
  LET made == mkdir(st.fs, parent(file_path))
      seen == Append(st.seen, file_path)
  IN
  IF ~made.ok THEN [st EXCEPT !.seen = seen, !.exc = made]
  ELSE
    LET wrote == write_text(made.val, file_path, new_content)
        writes == Append(st.writes, [path |-> file_path, text |-> new_content, at |-> at])
    IN
    IF ~wrote.ok THEN [st EXCEPT !.seen = seen, !.fs = made.val, !.exc = wrote]
    ELSE IF ~Under(file_path, allowed_directory)
    THEN [st EXCEPT !.seen = seen, !.fs = wrote.val, !.writes = writes,
                    !.exc = Raise("ValueError", "path is not in the subpath of the root")]
    ELSE update_sections(block, next_pos, base,
                         [st EXCEPT !.seen = seen, !.fs = wrote.val, !.writes = writes,
                                    !.updated = append_updated(@, relative_to(file_path))])

\* The inner loop: every "*** Update File:" section of one block, from pos on.
\* base is the offset of the block in the patch text.
update_sections(block, pos, base, st) ==
  LET uh == find(block, update_hdr, pos) IN
  IF uh = -1 THEN st
  ELSE
    LET next_uh == find(block, update_hdr, uh + Len(update_hdr))
        next_pos == IF next_uh # -1 THEN next_uh ELSE Len(block)
        file_block == Slice(block, uh, next_pos)
        first_line_end == find(file_block, <<NL>>, 0)
    IN
    IF first_line_end = -1
    THEN [st EXCEPT !.exc = Raise("ValueError", "Malformed update header (no newline after file path)")]
    ELSE
      LET header == strip(Slice(file_block, 0, first_line_end), Whitespace) IN
      IF ~StartsWith(header, update_hdr)
      THEN [st EXCEPT !.exc = Raise("ValueError", "Malformed update header")]
      ELSE
        LET rel_path == strip(Slice(header, Len(update_hdr), Len(header)), Whitespace)
            new_content == Slice(file_block, first_line_end + 1, Len(file_block))
            file_path == validate_path(rel_path)
        IN
        IF ~file_path.ok THEN [st EXCEPT !.exc = file_path]
        ELSE write_section(block, next_pos, base, st, base + uh, file_path.val, new_content)

\* A block without end marker taken to run to the end of the text
find_end_or_eof(patch_text, start) ==
  IF find(patch_text, end, start) = -1 THEN Len(patch_text) ELSE find(patch_text, end, start)

\* stop = patch_text.find(end, start)
find_end(patch_text, start) == find(patch_text, end, start)

RECURSIVE patch_blocks(_, _, _)

\* After the sections of one block: the exception ends the call, else the
\* next block is looked for from idx on.
next_block(patch_text, idx, st) ==
  IF ~st.exc.ok THEN st ELSE patch_blocks(patch_text, idx, st)

\* The outer loop: every Begin/End block of the patch text, from idx on.
patch_blocks(patch_text, idx, st) ==
  LET start == find(patch_text, begin, idx) IN
  IF start = -1 THEN st
  ELSE
    LET stop == find_end(patch_text, start) IN
    IF stop = -1
    THEN [st EXCEPT !.exc = Raise("ValueError", "Unclosed patch block (missing '*** End Patch')")]
    ELSE
      LET body == Slice(patch_text, start + Len(begin), stop)
          lead == Len(body) - Len(lstrip(body, {NL}))
      IN next_block(patch_text, stop + Len(end),
                    update_sections(strip(body, {NL}), 0, start + Len(begin) + lead, st))

\* The return of handle_apply_patch, or the exception that ended it.
patch_outcome(st) ==
  Outcome(st.fs,
          IF st.exc.ok THEN Ok([success |-> TRUE, updated |-> st.updated])
          ELSE st.exc,
          st.seen, st.writes)

handle_apply_patch(f, patch_text) ==
  IF patch_text = <<>> \/ find(patch_text, begin, 0) = -1
  THEN Outcome(f, Raise("ValueError", "Patch missing '*** Begin Patch'"), <<>>, <<>>)
  ELSE patch_outcome(patch_blocks(patch_text, 0, PatchState(f)))

\* ------------------------------------------------------------ JSON values

\* The empty dict
NoKeys == <<>>

\* A JSON value carries its type; Python's None is JSON null.
JNull == [t |-> "null"]
JStr(v) == [t |-> "str", s |-> v]
JNum(v) == [t |-> "num", n |-> v]
JArr(v) == [t |-> "arr", a |-> v]
JObj(v) == [t |-> "obj", o |-> v]

\* bool(v)
truthy(j) ==
  CASE j.t = "null" -> FALSE
    [] j.t = "num" -> j.n # 0
    [] j.t = "obj" -> DOMAIN j.o # {}
    [] j.t = "arr" -> j.a # <<>>
    [] OTHER -> j.s # <<>>

\* v or {}
or_empty(j) == IF truthy(j) THEN j ELSE JObj(NoKeys)

\* -------- fetch, search --------

\* One lexeme standing for 1 MiB of text, so that a file can exceed the ceiling.
MEG == "<1 MiB>"
CR == "\r"

\* path.stat().st_size of a file holding this text
RECURSIVE st_size(_)
st_size(text) ==
  IF text = <<>> THEN 0
  ELSE (IF Head(text) = MEG THEN 1024 * 1024 ELSE 1) + st_size(Tail(text))

\* path.read_text(): universal newlines turn "\r\n" and a lone "\r" into "\n"
RECURSIVE read_text(_)
read_text(text) ==
  IF text = <<>> THEN <<>>
  ELSE IF Head(text) = CR
       THEN <<NL>> \o read_text(IF Len(text) > 1 /\ text[2] = NL THEN Tail(Tail(text)) ELSE Tail(text))
       ELSE <<Head(text)>> \o read_text(Tail(text))

\* path.name of a canonical path
name(p) == LET ps == Parts(p) IN IF ps = <<>> THEN <<>> ELSE ps[Len(ps)]

\* path.iterdir(): the children of a directory (their order is not modelled)
iterdir(f, p) == {q \in DOMAIN f : q # p /\ parent(q) = p}

\* The entries a listing shows: "[DIR] " marks a directory.
Listing(f, p) == {[name |-> name(q), dir |-> f[q].dir] : q \in iterdir(f, p)}

\* The mutant of handle_fetch: the file asked for is made, empty.
fetch_touching(f, file_id) == handle_write_file(f, file_id, <<>>)

handle_fetch(f, file_id) ==
  IF file_id = <<>> THEN Outcome(f, Raise("ValueError", "File ID is required"), <<>>, <<>>)
  ELSE LET path == validate_path(file_id) IN
    IF ~path.ok THEN Outcome(f, path, <<>>, <<>>)
    ELSE IF ~exists(f, path.val)
      THEN Outcome(f, Raise("ValueError", "Not found"), <<path.val>>, <<>>)
      ELSE IF is_dir(f, path.val)
        THEN Outcome(f, Ok([id |-> file_id, title |-> name(path.val),
                            type |-> "directory", items |-> Listing(f, path.val)]),
                     <<path.val>>, <<>>)
        ELSE IF st_size(f[path.val].text) > 1024 * 1024
          THEN Outcome(f, Raise("ValueError", "File too large (limit 1MB)"), <<path.val>>, <<>>)
          ELSE Outcome(f, Ok([id |-> file_id, title |-> name(path.val),
                              type |-> "file", text |-> read_text(f[path.val].text),
                              size |-> st_size(f[path.val].text)]),
                       <<path.val>>, <<>>)

\* str.lower(), one character
LowerChar(c) == CASE c = "A" -> "a" [] c = "D" -> "d" [] OTHER -> c
lower(s) == [i \in 1..Len(s) |-> LowerChar(s[i])]

\* q in s
contains(s, q) == find(s, q, 0) # -1

\* The number of results search returns at most.
MaxResults == 20

\* Every entry a search for q may return, as root-relative ids.
SearchMatches(f, query) ==
  LET q == strip(lower(query), Whitespace) IN
  IF q = <<>>
  THEN IF is_dir(f, allowed_directory)
       THEN {relative_to(p) : p \in iterdir(f, allowed_directory)}
       ELSE {}
  ELSE {relative_to(p) : p \in {x \in DOMAIN f : x # allowed_directory /\ Under(x, allowed_directory)
                                  /\ (contains(lower(name(x)), q) \/ contains(lower(relative_to(x)), q))}}

\* The characters of the names that are compared, in code point order.
CodePoints ==
  <<"A", "D", "a", "b", "c", "d", "e", "f", "g", "h", "i", "j", "k", "l", "m", "n", "o", "p",
    "q", "r", "s", "t", "u", "v", "w", "x">>
ord(c) == CHOOSE i \in 1..Len(CodePoints) : CodePoints[i] = c

\* s < t on strings
RECURSIVE str_lt(_, _)
str_lt(s, t) ==
  IF t = <<>> THEN FALSE
  ELSE IF s = <<>> THEN TRUE
  ELSE IF Head(s) = Head(t) THEN str_lt(Tail(s), Tail(t))
  ELSE ord(Head(s)) < ord(Head(t))

\* key=lambda p: (not p.is_dir(), p.name.lower()), and the order of the keys
sort_key(f, p) == [file |-> ~is_dir(f, p), name |-> lower(name(p))]
key_lt(a, b) == (~a.file /\ b.file) \/ (a.file = b.file /\ str_lt(a.name, b.name))

\* The ways of leaving k of the set m out.
RECURSIVE Without(_, _)
Without(m, k) == IF k = 0 THEN {m} ELSE UNION {Without(m \ {x}, k - 1) : x \in m}

\* The mutant of SearchCuts: every match is returned.
EveryMatch(f, query) == {SearchMatches(f, query)}

\* results[:20]. With an empty query the entries are sorted, directories
\* first and then by name, and the first MaxResults are kept (either of two
\* entries of equal key may come first). Otherwise the order is the one the
\* directories are read in, so any MaxResults of the matches may be kept.
SearchCuts(f, query) ==
  LET m == SearchMatches(f, query) IN
  IF Cardinality(m) <= MaxResults THEN {m}
  ELSE IF strip(lower(query), Whitespace) = <<>>
  THEN {c \in Without(m, Cardinality(m) - MaxResults) :
          \A x \in c, y \in m \ c :
            ~key_lt(sort_key(f, Div(allowed_directory, y)), sort_key(f, Div(allowed_directory, x)))}
  ELSE Without(m, Cardinality(m) - MaxResults)

handle_search(f, query, cut) ==
  Outcome(f, Ok([results |-> cut]), <<>>, <<>>)

\* -------- shell --------

DEFAULT_TIMEOUT_SEC == 30

\* shlex.split on a text without quotes or escapes: the runs between whitespace
RECURSIVE shlex_split(_, _, _)
shlex_split(s, cur, acc) ==
  IF s = <<>> THEN (IF cur = <<>> THEN acc ELSE Append(acc, cur))
  ELSE IF Head(s) \in Whitespace
       THEN shlex_split(Tail(s), <<>>, IF cur = <<>> THEN acc ELSE Append(acc, cur))
       ELSE shlex_split(Tail(s), Append(cur, Head(s)), acc)

MAX_STDOUT_CHARS == 200000
MAX_STDERR_CHARS == 200000

\* One lexeme standing for 100,000 characters of output, and one for a byte
\* that is no UTF-8.
BLOCK == "<100000 chars>"
BAD == "<0xff>"

\* len(s) and s[:n] of a text with blocks; n falls between two lexemes
Width(c) == IF c = BLOCK THEN 100000 ELSE 1

RECURSIVE len(_)
len(s) == IF s = <<>> THEN 0 ELSE Width(Head(s)) + len(Tail(s))

\* No truncation at all
Whole(s, n) == s

RECURSIVE UpTo(_, _)
UpTo(s, n) ==
  IF s = <<>> \/ Width(Head(s)) > n THEN <<>>
  ELSE <<Head(s)>> \o UpTo(Tail(s), n - Width(Head(s)))

\* A value that is a str, or bytes
Str(s) == [bytes |-> FALSE, text |-> s]
Bytes(s) == [bytes |-> TRUE, text |-> s]

\* What subprocess.run may meet: the child exits with a code, outlives the
\* timeout and is killed, or cannot be started; and what it wrote until then.
Child(kind, code, stdout, stderr) ==
  [kind |-> kind, code |-> code, stdout |-> stdout, stderr |-> stderr]

ChildOutcomes ==
  {Child("exit", 0, <<>>, <<>>), Child("exit", 1, <<>>, <<"o", NL>>),
   Child("exit", 0, <<"o", CR, NL, "k">>, <<>>),
   Child("exit", 0, <<BLOCK, BLOCK, "o">>, <<BLOCK, BLOCK>>),
   Child("exit", 1, <<"o", NL>>, <<BLOCK, BLOCK, "o">>),
   Child("exit", 0, <<BAD>>, <<>>),
   Child("timeout", 0, <<>>, <<>>), Child("timeout", 0, <<"o", NL>>, <<>>),
   Child("timeout", 0, <<>>, <<BLOCK, BLOCK, "o">>),
   Child("oserror", 0, <<>>, <<>>)}

\* argv of a command: shlex.split of a string, the list itself if it holds
\* only strings
build_argv(cmd) ==
  IF cmd.t = "str" THEN Ok(shlex_split(cmd.s, <<>>, <<>>))
  ELSE IF cmd.t = "arr"
       THEN IF \E i \in 1..Len(cmd.a) : cmd.a[i].t # "str"
            THEN Raise("ValueError", "command array must contain only strings")
            ELSE Ok([i \in 1..Len(cmd.a) |-> cmd.a[i].s])
       ELSE Raise("ValueError", "command must be string or array of strings")

\* str.upper(), one character
UpperChar(c) ==
  CASE c = "a" -> "A" [] c = "w" -> "W" [] c = "s" -> "S" [] c = "h" -> "H" [] c = "k" -> "K"
    [] OTHER -> c
upper(s) == [i \in 1..Len(s) |-> UpperChar(s[i])]

\* The prefixes of the names _restricted_env drops
CredentialPrefixes ==
  {<<"A", "W", "S", "_">>, <<"G", "C", "P", "_">>, <<"A", "Z", "U", "R", "E", "_">>,
   <<"D", "O", "C", "K", "E", "R", "_">>,
   <<"K", "U", "B", "E", "C", "O", "N", "F", "I", "G">>, <<"S", "S", "H", "_">>}

\* A copy of os.environ without the names that start with such a prefix, and
\* os.environ as the call leaves it.
\* The mutant of _restricted_env: the names are compared as they are spelt.
case_sensitive_env(os_environ) ==
  [env |-> [k \in {n \in DOMAIN os_environ :
                     \A pre \in CredentialPrefixes : ~StartsWith(n, pre)}
              |-> os_environ[k]],
   os_environ |-> os_environ]

_restricted_env(os_environ) ==
  [env |-> [k \in {n \in DOMAIN os_environ :
                     \A pre \in CredentialPrefixes : ~StartsWith(upper(n), pre)}
              |-> os_environ[k]],
   os_environ |-> os_environ]

\* io.TextIOWrapper over a pipe: UTF-8, universal newlines
decode(piped) ==
  IF \E i \in 1..Len(piped) : piped[i] = BAD
  THEN Raise("UnicodeDecodeError", "'utf-8' codec can't decode byte 0xff")
  ELSE Ok(read_text(piped))

\* The child process of one call: how it was started and how it ended.
Spawn(argv, cwd, timeout, made, child) ==
  [argv |-> argv, cwd |-> cwd, timeout |-> timeout, env |-> made.env,
   os_environ |-> made.os_environ, killed |-> (child.kind = "timeout"), child |-> child]

\* The Execution Result of a child that outlived the timeout: TimeoutExpired
\* carries of each pipe the bytes read, None if there are none.
timed_out(timeout, child) ==
  [ok |-> FALSE, exitCode |-> JNull, timedOut |-> TRUE,
   stdout |-> IF child.stdout = <<>> THEN Str(<<>>)
              ELSE Bytes(UpTo(child.stdout, MAX_STDOUT_CHARS)),
   stderr |-> IF child.stderr = <<>> THEN Str(<<"Timed out after">>)
              ELSE Bytes(UpTo(child.stderr, MAX_STDERR_CHARS))]

\* The Execution Result of a child that exited: out and err are its streams
\* as text.
completed(code, out, err) ==
  [ok |-> (code = 0), exitCode |-> JNum(code), timedOut |-> FALSE,
   stdout |-> Str(UpTo(out, MAX_STDOUT_CHARS)), stderr |-> Str(UpTo(err, MAX_STDERR_CHARS))]

\* subprocess.run and the Execution Result made of what the child did
run_child(f, argv, workdir, timeout, made, child) ==
  IF child.kind = "oserror"
  THEN Outcome(f, Raise("FileNotFoundError", "No such file or directory"), <<workdir>>, <<>>)
  ELSE [Outcome(f,
                IF child.kind = "timeout" THEN Ok(timed_out(timeout, child))
                ELSE IF ~decode(child.stdout).ok THEN decode(child.stdout)
                ELSE IF ~decode(child.stderr).ok THEN decode(child.stderr)
                ELSE Ok(completed(child.code, decode(child.stdout).val, decode(child.stderr).val)),
                <<workdir>>, <<>>)
          EXCEPT !.spawned = <<Spawn(argv, workdir, timeout, made, child)>>]

handle_shell(f, args, child, os_environ) ==
  IF "command" \notin DOMAIN args \/ "workdir" \notin DOMAIN args
  THEN Outcome(f, Raise("ValueError", "shell requires 'command' and 'workdir'"), <<>>, <<>>)
  ELSE LET workdir == validate_path(args.workdir) IN
    IF ~workdir.ok THEN Outcome(f, workdir, <<>>, <<>>)
    ELSE IF ~exists(f, workdir.val) \/ ~is_dir(f, workdir.val)
      THEN Outcome(f, Raise("ValueError", "Invalid workdir"), <<workdir.val>>, <<>>)
      ELSE LET argv == build_argv(args.command) IN
        IF ~argv.ok THEN Outcome(f, argv, <<workdir.val>>, <<>>)
        ELSE IF argv.val = <<>>
          THEN Outcome(f, Raise("ValueError", "command cannot be empty"), <<workdir.val>>, <<>>)
          ELSE IF ~StartsWith(resolve(workdir.val), allowed_directory)
            THEN Outcome(f, Raise("PermissionError", "workdir outside allowed directory"),
                         <<workdir.val>>, <<>>)
            ELSE run_child(f, argv.val, workdir.val, get(args, "timeout", DEFAULT_TIMEOUT_SEC),
                           _restricted_env(os_environ), child)

\* -------- JSON-RPC --------

PROTOCOL_VERSION == "2024-11-05"

InitializeResult ==
  [protocolVersion |-> PROTOCOL_VERSION,
   capabilities |-> [tools |-> NoKeys],
   serverInfo |-> [name |-> "Local Filesystem Server", version |-> "1.1.0"]]

\* The names of the tool descriptors tools/list returns, in order.
ToolCatalog ==
  <<"shell", "apply_patch", "search", "fetch", "write_file", "create_directory", "delete_file">>

Result(msg_id, result) == [jsonrpc |-> "2.0", id |-> msg_id, result |-> result]
Error(msg_id, code, message) ==
  [jsonrpc |-> "2.0", id |-> msg_id, error |-> [code |-> code, message |-> message]]

\* What one request meets outside the handler: the entries a search keeps,
\* what the shell child does, the environment of the process.
Env(cut, child) == [cut |-> cut, child |-> child, os_environ |-> environ]

\* The tools/call branch once tool_name and tool_args are known: the handler
\* that runs (none for an unknown tool) and what it leaves behind.
dispatch(f, tool_name, tool_args, env) ==
  IF tool_name = JStr("shell")
  THEN [ran |-> <<"shell">>, o |-> handle_shell(f, tool_args, env.child, env.os_environ)]
  ELSE IF tool_name = JStr("apply_patch")
  THEN [ran |-> <<"apply_patch">>, o |-> handle_apply_patch(f, get(tool_args, "patch", <<>>))]
  ELSE IF tool_name = JStr("search")
  THEN [ran |-> <<"search">>, o |-> handle_search(f, get(tool_args, "query", <<>>), env.cut)]
  ELSE IF tool_name = JStr("fetch")
  THEN [ran |-> <<"fetch">>, o |-> handle_fetch(f, get(tool_args, "id", <<>>))]
  ELSE IF tool_name = JStr("write_file")
  THEN [ran |-> <<"write_file">>,
        o |-> handle_write_file(f, get(tool_args, "path", <<>>), get(tool_args, "content", <<>>))]
  ELSE IF tool_name = JStr("create_directory")
  THEN [ran |-> <<"create_directory">>, o |-> handle_create_directory(f, get(tool_args, "path", <<>>))]
  ELSE IF tool_name = JStr("delete_file")
  THEN [ran |-> <<"delete_file">>, o |-> handle_delete_file(f, get(tool_args, "path", <<>>))]
  ELSE [ran |-> <<>>, o |-> Outcome(f, Ok(FALSE), <<>>, <<>>)]

\* What process_mcp_message leaves behind: the filesystem, the envelope it
\* returns or the exception that escapes it, the handlers that ran and the
\* type of the exception a handler raised ("" if none did).
Routed(f, ret, ran, seen, writes) ==
  [fs |-> f, ret |-> ret, ran |-> ran, seen |-> seen, writes |-> writes, raised |-> "",
   spawned |-> <<>>]

\* An unknown tool reported as a tool-execution error
unknown_tool_as_tool_error(msg_id) == Error(msg_id, -32000, "Unknown tool")

\* A handler's exception reported as an internal error
tool_error_as_internal(msg_id, e) == Error(msg_id, -32603, e.msg)

\* The envelopes of the three error returns of process_mcp_message.
unknown_tool(msg_id) == Error(msg_id, -32601, "Unknown tool")
unknown_method(msg_id) == Error(msg_id, -32601, "Unknown method")
tool_error(msg_id, e) == Error(msg_id, -32000, e.msg)

\* json.dumps(result): bytes are not serializable
json_dumps(out) ==
  IF out.ok /\ "stdout" \in DOMAIN out.val /\ (out.val.stdout.bytes \/ out.val.stderr.bytes)
  THEN Raise("TypeError", "Object of type bytes is not JSON serializable")
  ELSE out

\* The envelope of a tools/call, of what dispatch found: no handler, a
\* handler that returned, a handler that raised (or whose result json.dumps
\* raised on).
tool_response(f, msg_id, d) ==
  IF d.ran = <<>>
  THEN Routed(f, Ok(unknown_tool(msg_id)), <<>>, <<>>, <<>>)
  ELSE IF json_dumps(d.o.out).ok
    THEN [Routed(d.o.fs, Ok(Result(msg_id, [content |-> <<d.o.out.val>>])),
                 d.ran, d.o.seen, d.o.writes)
            EXCEPT !.spawned = d.o.spawned]
    ELSE [Routed(d.o.fs, Ok(tool_error(msg_id, json_dumps(d.o.out))), d.ran, d.o.seen, d.o.writes)
            EXCEPT !.raised = json_dumps(d.o.out).type, !.spawned = d.o.spawned]

\* The tools/call branch.
tools_call(f, params, msg_id, env) ==
  IF params.t # "obj"
  THEN Routed(f, Raise("AttributeError", "object has no attribute 'get'"), <<>>, <<>>, <<>>)
  ELSE tool_response(f, msg_id,
                     dispatch(f, get(params.o, "name", JNull),
                              get(params.o, "arguments", NoKeys), env))

process_mcp_message(f, message, env) ==
  IF message.t # "obj"
  THEN Routed(f, Raise("AttributeError", "object has no attribute 'get'"), <<>>, <<>>, <<>>)
  ELSE
    LET method == get(message.o, "method", JNull)
        params == or_empty(get(message.o, "params", JObj(NoKeys)))
        msg_id == get(message.o, "id", JNull)
    IN
    IF method = JStr("initialize")
    THEN Routed(f, Ok(Result(msg_id, InitializeResult)), <<>>, <<>>, <<>>)
    ELSE IF method = JStr("tools/list")
    THEN Routed(f, Ok(Result(msg_id, [tools |-> ToolCatalog])), <<>>, <<>>, <<>>)
    ELSE IF method = JStr("tools/call")
    THEN tools_call(f, params, msg_id, env)
    ELSE Routed(f, Ok(unknown_method(msg_id)), <<>>, <<>>, <<>>)

\* int(text) on a header value: an optional sign and decimal digits
Digits == <<"0", "1", "2", "3", "4", "5", "6", "7", "8", "9">>
DigitValue(c) == (CHOOSE i \in 1..Len(Digits) : Digits[i] = c) - 1

RECURSIVE Decimal(_, _)
Decimal(s, acc) ==
  IF s = <<>> THEN acc ELSE Decimal(Tail(s), 10 * acc + DigitValue(Head(s)))

int(text) ==
  LET neg == text # <<>> /\ Head(text) = "-"
      digits == IF neg THEN Tail(text) ELSE text
  IN IF digits = <<>> \/ \E i \in 1..Len(digits) : \A k \in 1..Len(Digits) : Digits[k] # digits[i]
     THEN Raise("ValueError", "invalid literal for int() with base 10")
     ELSE Ok(IF neg THEN 0 - Decimal(digits, 0) ELSE Decimal(digits, 0))

\* The bytes rfile.read returns are either the encoding of a JSON value or not.
Encoded(j) == [json |-> TRUE, value |-> j]
Garbage == [json |-> FALSE, value |-> JNull]

\* json.loads(raw)
json_loads(raw) ==
  IF raw.json THEN Ok(raw.value) ELSE Raise("JSONDecodeError", "Expecting value")

\* What handling one POST leaves behind: the filesystem, the HTTP status and
\* JSON body sent, whether process_mcp_message was entered, and its record.
Handled(f, status, body, routed, ran, seen, writes) ==
  [fs |-> f, status |-> status, body |-> body, routed |-> routed,
   ran |-> ran, seen |-> seen, writes |-> writes, raised |-> "", spawned |-> <<>>]

\* An error envelope that never carries the request's id
no_id(message) == JNull

\* The id of the error envelope when handling raised: message.get("id") if
\* message is a dict, else None.
best_effort_id(message) ==
  IF message.ok /\ message.val.t = "obj" THEN get(message.val.o, "id", JNull) ELSE JNull

\* What is sent once process_mcp_message is back: its envelope with 200, or
\* the internal error with 500 if it raised.
send_routed(message, r) ==
  IF r.ret.ok
  THEN [Handled(r.fs, 200, r.ret.val, TRUE, r.ran, r.seen, r.writes)
          EXCEPT !.raised = r.raised, !.spawned = r.spawned]
  ELSE Handled(r.fs, 500, Error(best_effort_id(message), -32603, r.ret.msg),
               TRUE, r.ran, r.seen, r.writes)

handle_mcp_message(f, req, env) ==
  LET content_length == int(get(req.headers, "Content-Length", <<"0">>)) IN
  IF ~content_length.ok
  THEN Handled(f, 500, Error(JNull, -32603, content_length.msg), FALSE, <<>>, <<>>, <<>>)
  ELSE IF content_length.val <= 0
  THEN Handled(f, 400, Error(JNull, -32600, "No content"), FALSE, <<>>, <<>>, <<>>)
  ELSE
    LET message == json_loads(req.body) IN
    IF ~message.ok
    THEN Handled(f, 500, Error(best_effort_id(message), -32603, message.msg),
                 FALSE, <<>>, <<>>, <<>>)
    ELSE send_routed(message, process_mcp_message(f, message.val, env))

\* ----------------------------------------------------------------- inputs

\* Path arguments: in the root, the root itself, through "..", out of the
\* root, into the sibling "/rx" whose name the root's is a prefix of, empty.
InRootPaths == {<<"a">>, <<"d", SEP, "a">>, <<".", ".", SEP, "r", SEP, "a">>}
UserPaths ==
  InRootPaths \cup {<<".">>, <<".", ".", SEP, "q">>, <<SEP, "r", "x", SEP, "a">>, <<>>}

Contents == {<<"h", NL>>, <<MEG, "h">>, <<"h", CR, NL, "w">>}
Queries == {<<>>, <<"A">>}

ShellArgs ==
  {[command |-> JStr(<<"t">>), workdir |-> <<".">>],
   [command |-> JStr(<<"t">>), workdir |-> <<".">>, timeout |-> 1],
   [command |-> JArr(<<JStr(<<"t">>)>>), workdir |-> <<"d">>],
   [command |-> JArr(<<JNum(1)>>), workdir |-> <<".">>],
   [command |-> JNum(1), workdir |-> <<".">>],
   [command |-> JStr(<<SP>>), workdir |-> <<".">>],
   [command |-> JStr(<<"t">>), workdir |-> <<".", ".", SEP, "q">>],
   [command |-> JStr(<<"t">>), workdir |-> <<"a">>],
   [command |-> JStr(<<"t">>), workdir |-> <<SEP, "r", "x">>],
   [command |-> JStr(<<"t">>)]}

\* A patch document: blocks of update sections.  A section names a path and,
\* when its header line is ended by a newline, carries content.
Section(path, nl, content) == [path |-> path, nl |-> nl, content |-> content]
Doc(blocks, closed, bare) == [blocks |-> blocks, closed |-> closed, bare |-> bare]
NoDoc == Doc(<<>>, TRUE, TRUE)

RenderSection(sec) ==
  update_hdr \o <<SP>> \o sec.path \o (IF sec.nl THEN <<NL>> \o sec.content ELSE <<>>)

RECURSIVE RenderSections(_)
RenderSections(secs) ==
  IF secs = <<>> THEN <<>> ELSE RenderSection(Head(secs)) \o RenderSections(Tail(secs))

\* The patch text of a document: each block is "*** Begin Patch", a newline,
\* its sections and "*** End Patch"; blocks are separated by a newline.  The
\* last block of a document that is not closed lacks its end marker; a bare
\* document has no markers around its sections.
RECURSIVE RenderBlocks(_, _)
RenderBlocks(blocks, closed) ==
  IF blocks = <<>> THEN <<>>
  ELSE begin \o <<NL>> \o RenderSections(Head(blocks))
       \o (IF Len(blocks) > 1 THEN end \o <<NL>> \o RenderBlocks(Tail(blocks), closed)
           ELSE IF closed THEN end ELSE <<>>)

RECURSIVE Flatten(_)
Flatten(blocks) == IF blocks = <<>> THEN <<>> ELSE Head(blocks) \o Flatten(Tail(blocks))

Render(d) == IF d.bare THEN RenderSections(Flatten(d.blocks)) ELSE RenderBlocks(d.blocks, d.closed)

SectionContents == {<<"h", NL>>, <<"w">>}

\* Sections: either content at two paths in the root; a path out of the
\* root; a path into the sibling; a header line without its newline.
Sections ==
  {Section(p, TRUE, c) : p \in {<<"a">>, <<"d", SEP, "a">>}, c \in SectionContents}
  \cup {Section(<<".", ".", SEP, "q">>, TRUE, <<"w">>),
        Section(<<SEP, "r", "x", SEP, "a">>, TRUE, <<"h", NL>>),
        Section(<<"a">>, FALSE, <<>>)}

\* The section lists of at most n sections, and the ways to cut one into blocks.
SectionLists(n) == UNION {[1..k -> Sections] : k \in 0..n}

Cuts(secs) ==
  {<<secs>>} \cup {<<SubSeq(secs, 1, k), SubSeq(secs, k + 1, Len(secs))>> : k \in 0..Len(secs)}

PatchDocs ==
  {Doc(bs, c, FALSE) : bs \in UNION {Cuts(secs) : secs \in SectionLists(MaxSections)}, c \in BOOLEAN}
  \cup {Doc(<<secs>>, TRUE, TRUE) : secs \in SectionLists(1)}

\* The patch documents the clients of the server send.
ClientDocs ==
  {Doc(<<<<Section(<<"a">>, TRUE, <<"h", NL>>)>>>>, TRUE, FALSE),
   Doc(<<<<Section(<<"d", SEP, "a">>, TRUE, <<"w">>),
           Section(<<".", ".", SEP, "q">>, TRUE, <<"h", NL>>)>>>>, TRUE, FALSE),
   Doc(<<<<Section(<<"a">>, TRUE, <<"w">>)>>, <<Section(<<"a">>, FALSE, <<>>)>>>>, FALSE, FALSE)}

Merge(f, g) == [k \in DOMAIN f \cup DOMAIN g |-> IF k \in DOMAIN f THEN f[k] ELSE g[k]]

Ids == {JNull, JNum(7)}
IdParts == {NoKeys} \cup {[id |-> i] : i \in Ids}

PathCalls ==
  {[name |-> JStr(t), arguments |-> [path |-> p]] :
     t \in {"create_directory", "delete_file"}, p \in UserPaths}
  \cup {[name |-> JStr("fetch"), arguments |-> [id |-> p]] : p \in UserPaths}
  \cup {[name |-> JStr("write_file"), arguments |-> [path |-> p, content |-> c]] :
          p \in UserPaths, c \in Contents}

OtherCalls ==
  {[name |-> JStr("search"), arguments |-> [query |-> q]] : q \in Queries}
  \cup {[name |-> JStr("shell"), arguments |-> a] : a \in ShellArgs}
  \cup {[name |-> JStr(t)] : t \in {"write_file", "shell", "apply_patch", "rename_file"}}
  \cup {NoKeys, [arguments |-> [path |-> <<"a">>]],
        [name |-> JStr("rename_file"), arguments |-> [path |-> <<"a">>]]}

PatchCall(d) == [name |-> JStr("apply_patch"), arguments |-> [patch |-> Render(d)]]

ToolsCall(c) == [method |-> JStr("tools/call"), params |-> JObj(c)]

MethodParts ==
  {NoKeys, [method |-> JStr("initialize")], [method |-> JStr("tools/list")],
   [method |-> JStr("resources/list")], [method |-> JStr("tools/list"), params |-> JStr(<<"p">>)],
   [method |-> JStr("tools/call")], [method |-> JStr("tools/call"), params |-> JNull],
   [method |-> JStr("tools/call"), params |-> JStr(<<"p">>)]}
  \cup {ToolsCall(c) : c \in PathCalls \cup OtherCalls}

Post(path, headers, body) == [verb |-> "POST", path |-> path, headers |-> headers, body |-> body]
Get(path) == [verb |-> "GET", path |-> path, headers |-> NoKeys, body |-> Garbage]
Length(text) == [k \in {"Content-Length"} |-> text]

\* The requests without a patch: well-formed envelopes, bodies that are no
\* JSON object, unusable Content-Length headers, other URLs.
Requests ==
  {Post("/", Length(<<"9">>), Encoded(JObj(Merge(i, m)))) : i \in IdParts, m \in MethodParts}
  \cup {Post("/", Length(<<"9">>), b) : b \in {Garbage, Encoded(JArr(<<>>)), Encoded(JNum(7))}}
  \cup {Post("/", h, Garbage) : h \in {NoKeys, Length(<<"0">>), Length(<<"-", "1">>), Length(<<"x">>)}}
  \cup {Post(u, Length(<<"9">>), Encoded(JObj(Merge(i, [method |-> JStr("tools/list")])))) :
          u \in {"/sse/", "/mcp"}, i \in IdParts}

PatchRequest(i, d) == Post("/", Length(<<"9">>), Encoded(JObj(Merge(i, ToolsCall(PatchCall(d))))))

NoRequest == [verb |-> "", path |-> "", headers |-> NoKeys, body |-> Garbage]

\* The GET requests: the event stream, the server's description, another URL.
GetRequests == {Get("/sse/"), Get("/"), Get("/mcp")}

\* The requests of the connections that wait to be accepted: two
\* well-formed ones and a body that is JSON but no object.
WaitingRequests ==
  {Post("/", Length(<<"9">>), Encoded(JObj(Merge([id |-> JNum(7)], m)))) :
     m \in {[method |-> JStr("tools/list")],
            ToolsCall([name |-> JStr("write_file"),
                       arguments |-> [path |-> <<"a">>, content |-> <<"h", NL>>]])}}
  \cup {Post("/", Length(<<"9">>), Encoded(JArr(<<>>)))}

\* No event stream; one whose peer listens (open) or has gone.
NoStream == [peer |-> "none", failed |-> FALSE]
NoResponse == [status |-> 0, body |-> NoKeys]
\* The record of a handling: the filesystem before it, whether the router was
\* entered, the handlers run, the paths validated, the files a patch wrote,
\* the exception a handler raised, the one raised in the request before, the
\* child processes started, and what the request before wrote with write_file.
NoCall == [before |-> NoKeys, routed |-> FALSE, ran |-> <<>>, seen |-> <<>>, writes |-> <<>>,
           raised |-> "", after |-> "", spawned |-> <<>>, wrote |-> <<>>]

\* The trees the server may be started on: the root is a directory (main
\* refuses anything else); "/rx" is a sibling of the root.
Tree(files, dirs) ==
  [p \in {<<SEP>>, allowed_directory} \cup DOMAIN files \cup dirs |->
     IF p \in DOMAIN files THEN FileNode(files[p]) ELSE DirNode]

InRoot(rel) == Div(allowed_directory, rel)

InitialTrees ==
  {Tree(NoKeys, {}),
   Tree([p \in {InRoot(<<"a">>)} |-> <<"w", NL>>], {InRoot(<<"d">>), <<SEP, "r", "x">>}),
   Tree([p \in {InRoot(<<"d">>)} |-> <<"w">>], {InRoot(<<"a">>)})}

\* A root of more than MaxResults entries, and as many below its directory d.
ManyNames ==
  {<<c>> : c \in {"a", "b", "c", "e", "f", "g", "h", "i", "j", "k", "l", "m", "n", "o", "p",
                  "q", "s", "t", "u", "v"}}
BigTree ==
  Tree([p \in {InRoot(n) : n \in ManyNames} \cup {InRoot(<<"d", SEP>> \o n) : n \in ManyNames}
          |-> <<"w">>],
       {InRoot(<<"d">>)})
SearchTrees == InitialTrees \cup {BigTree}

\* The queries: empty, blank, of a few matches, of more than MaxResults, of
\* exactly MaxResults, of none.
SearchQueries == {<<>>, <<" ">>, <<"A">>, <<"d">>, <<"d", SEP>>, <<"z">>}
SearchRequests ==
  {Post("/", Length(<<"9">>),
        Encoded(JObj(Merge([id |-> JNum(7)],
                           ToolsCall([name |-> JStr("search"), arguments |-> [query |-> q]]))))) :
     q \in SearchQueries}

\* The environment the server is started in: names with and without a
\* credential prefix, in either case, and names that only resemble one.
ServerEnviron ==
  [n \in {<<"P", "A", "T", "H">>, <<"A", "W", "S", "_", "K">>, <<"a", "w", "s", "_", "k">>,
          <<"S", "S", "H">>, <<"S", "s", "h", "_", "A">>, <<"K", "_", "A", "W", "S", "_">>,
          <<"K", "U", "B", "E", "C", "O", "N", "F", "I", "G">>,
          <<"D", "O", "C", "K", "E", "R", "_", "H">>, <<"D", "O", "C", "K", "E", "R">>}
     |-> <<"v">> \o n]

\* ---------------------------------------------------------------- actions

\* The tool call a request amounts to, if any: looked at only to know which
\* of the request's nondeterministic outcomes can matter.
Called(req) ==
  LET none == [tool |-> JNull, args |-> NoKeys] IN
  IF ~req.body.json \/ req.body.value.t # "obj" THEN none
  ELSE LET m == req.body.value.o
           pr == or_empty(get(m, "params", JObj(NoKeys)))
       IN IF get(m, "method", JNull) # JStr("tools/call") \/ pr.t # "obj" THEN none
          ELSE [tool |-> get(pr.o, "name", JNull), args |-> get(pr.o, "arguments", NoKeys)]

Envs(f, req) ==
  LET c == Called(req) IN
  IF c.tool = JStr("search")
  THEN {Env(cut, Child("exit", 0, <<>>, <<>>)) : cut \in SearchCuts(f, get(c.args, "query", <<>>))}
  ELSE IF c.tool = JStr("shell")
  THEN {Env({}, child) : child \in ChildOutcomes}
  ELSE {Env({}, Child("exit", 0, <<>>, <<>>))}

\* What a request has written with write_file, if it was answered with a result.
Written(req, resp) ==
  IF Called(req).tool = JStr("write_file") /\ "result" \in DOMAIN resp.body
  THEN <<[path |-> Called(req).args.path, content |-> Called(req).args.content]>>
  ELSE <<>>

Init ==
  /\ fs \in InitialTrees
  /\ conn = "idle"
  /\ request = NoRequest
  /\ doc = NoDoc
  /\ response = NoResponse
  /\ call = NoCall
  /\ served = 0
  /\ environ = ServerEnviron
  /\ stream = NoStream
  /\ waiting = NoRequest

\* A client connects and sends one POST.
ClientPost ==
  /\ conn = "idle"
  /\ served < MaxRequests
  /\ \E req \in Requests :
       /\ request' = req
       /\ doc' = NoDoc
  /\ conn' = "received"
  /\ UNCHANGED <<fs, response, call, served, environ, stream, waiting>>

\* A client connects and sends an apply_patch call written from a document.
ClientPatch ==
  /\ conn = "idle"
  /\ served < MaxRequests
  /\ \E i \in IdParts, d \in ClientDocs :
       /\ request' = PatchRequest(i, d)
       /\ doc' = d
  /\ conn' = "received"
  /\ UNCHANGED <<fs, response, call, served, environ, stream, waiting>>

\* _send_json, and the record of the handling
Respond(h) ==
  /\ fs' = h.fs
  /\ response' = [status |-> h.status, body |-> h.body]
  /\ call' = [before |-> fs, routed |-> h.routed, ran |-> h.ran,
              seen |-> h.seen, writes |-> h.writes, raised |-> h.raised, after |-> call.after,
              spawned |-> h.spawned, wrote |-> call.wrote]
  /\ environ' = IF h.spawned = <<>> THEN environ ELSE h.spawned[1].os_environ

do_POST ==
  /\ conn = "received" /\ request.verb = "POST"
  /\ IF request.path \in {"/", "/sse/"}
     THEN \E env \in Envs(fs, request) : Respond(handle_mcp_message(fs, request, env))
     ELSE /\ response' = [status |-> 404, body |-> NoKeys]
          /\ call' = [NoCall EXCEPT !.before = fs, !.after = call.after, !.wrote = call.wrote]
          /\ UNCHANGED <<fs, environ>>
  /\ conn' = "responded"
  /\ UNCHANGED <<request, doc, served, stream, waiting>>

\* The handler object lives for one request: the connection is closed and
\* the next request gets a new handler.
finish ==
  /\ conn = "responded"
  /\ conn' = "idle"
  /\ request' = NoRequest
  /\ doc' = NoDoc
  /\ response' = NoResponse
  /\ call' = [NoCall EXCEPT !.after = call.raised, !.wrote = Written(request, response)]
  /\ served' = served + 1
  /\ UNCHANGED <<fs, environ, stream, waiting>>

Next == ClientPost \/ ClientPatch \/ do_POST \/ finish

Spec == Init /\ [][Next]_vars

\* ---- the event stream and the connections that wait

\* A client connects and sends one GET.
ClientGet ==
  /\ conn = "idle" /\ waiting = NoRequest
  /\ served < MaxRequests
  /\ \E req \in GetRequests : request' = req
  /\ doc' = NoDoc
  /\ conn' = "received"
  /\ UNCHANGED <<fs, response, call, served, environ, stream, waiting>>

\* A client connects and sends one POST, whatever the server is doing: the
\* connection waits in the listen queue.
ClientWaits ==
  /\ waiting = NoRequest
  /\ served < MaxRequests
  /\ \E req \in WaitingRequests : waiting' = req
  /\ UNCHANGED <<fs, conn, request, doc, response, call, served, environ, stream>>

\* serve_forever takes the next connection once the handler of the one
\* before has returned: HTTPServer handles requests one after the other.
accept ==
  /\ conn = "idle"
  /\ waiting # NoRequest
  /\ request' = waiting
  /\ waiting' = NoRequest
  /\ doc' = NoDoc
  /\ conn' = "received"
  /\ UNCHANGED <<fs, response, call, served, environ, stream>>

\* send_sse_event: the writes to the peer, whose exception, if the peer has
\* gone and a write fails, is caught and dropped here.
send_sse_event(st, delivered) ==
  IF delivered THEN st ELSE [st EXCEPT !.failed = TRUE]

\* Whether a write reaches the peer: it does while the peer listens; once
\* the peer has gone it may still be buffered, or fail.
Deliveries(st) == IF st.peer = "open" THEN {TRUE} ELSE BOOLEAN

\* do_GET: the event stream up to its first sleep, the description of the
\* server, or 404. The peer of a new event stream has just sent its request:
\* the headers and the ready event reach it.
do_GET ==
  /\ conn = "received" /\ request.verb = "GET"
  /\ IF request.path = "/sse/"
     THEN /\ \E delivered \in Deliveries([peer |-> "open", failed |-> FALSE]) :
               stream' = send_sse_event([peer |-> "open", failed |-> FALSE], delivered)
          /\ conn' = "sleeping"
          /\ response' = [status |-> 200, body |-> NoKeys]
     ELSE /\ response' = IF request.path = "/"
                         THEN [status |-> 200, body |-> [jsonrpc |-> "2.0", result |-> InitializeResult]]
                         ELSE [status |-> 404, body |-> NoKeys]
          /\ conn' = "responded"
          /\ UNCHANGED stream
  /\ call' = [NoCall EXCEPT !.before = fs, !.after = call.after, !.wrote = call.wrote]
  /\ UNCHANGED <<fs, request, doc, served, environ, waiting>>

\* time.sleep(30) returns.
wake ==
  /\ conn = "sleeping"
  /\ conn' = "pinging"
  /\ UNCHANGED <<fs, request, doc, response, call, served, environ, stream, waiting>>

\* self.send_sse_event("ping", ...), and round the loop again.
ping ==
  /\ conn = "pinging"
  /\ \E delivered \in Deliveries(stream) : stream' = send_sse_event(stream, delivered)
  /\ conn' = "sleeping"
  /\ UNCHANGED <<fs, request, doc, response, call, served, environ, waiting>>

\* The peer of the event stream disconnects.
PeerCloses ==
  /\ conn \in {"sleeping", "pinging"}
  /\ stream.peer = "open"
  /\ stream' = [stream EXCEPT !.peer = "gone"]
  /\ UNCHANGED <<fs, conn, request, doc, response, call, served, environ, waiting>>

\* The steps of the one thread of serve_forever besides the handling of a
\* POST.
serve_forever == accept \/ do_GET \/ finish \/ wake \/ ping

\* The handling of a POST ends: do_POST has no loop and waits for nothing
\* but the child process, which subprocess.run kills at the timeout.
do_POST_returns == []<>~(conn = "received" /\ request.verb = "POST")

\* The server with its event stream: its thread runs whenever it has a step
\* to take, the clients and the peer do as they please.
NextStream == ClientGet \/ ClientWaits \/ PeerCloses \/ do_POST \/ serve_forever

SpecStream ==
  Init /\ [][NextStream]_vars /\ WF_vars(serve_forever) /\ do_POST_returns

\* ---- search alone, on trees up to one of more than MaxResults entries

InitSearch ==
  /\ fs \in SearchTrees
  /\ conn = "idle"
  /\ request = NoRequest
  /\ doc = NoDoc
  /\ response = NoResponse
  /\ call = NoCall
  /\ served = 0
  /\ environ = ServerEnviron
  /\ stream = NoStream
  /\ waiting = NoRequest

ClientSearch ==
  /\ conn = "idle"
  /\ served < MaxRequests
  /\ \E req \in SearchRequests : request' = req
  /\ doc' = NoDoc
  /\ conn' = "received"
  /\ UNCHANGED <<fs, response, call, served, environ, stream, waiting>>

NextSearch == ClientSearch \/ do_POST \/ finish

SpecSearch == InitSearch /\ [][NextSearch]_vars

\* The patch applier alone: one apply_patch call, on any of the initial trees,
\* with the patch text of any document of at most MaxSections sections.
InitPatch ==
  /\ fs \in InitialTrees
  /\ conn = "received"
  /\ \E d \in PatchDocs :
       /\ request = PatchRequest([id |-> JNum(7)], d)
       /\ doc = d
  /\ response = NoResponse
  /\ call = NoCall
  /\ served = 0
  /\ environ = ServerEnviron
  /\ stream = NoStream
  /\ waiting = NoRequest

NextPatch == do_POST \/ finish

SpecPatch == InitPatch /\ [][NextPatch]_vars

\* ================================================================= claims

Responded == conn = "responded"
Posted == Responded /\ request.verb = "POST" /\ request.path \in {"/", "/sse/"}
IsError == "error" \in DOMAIN response.body
IsResult == "result" \in DOMAIN response.body
ErrorCode == response.body.error.code
ErrorMessage == response.body.error.message

\* The Content-Length of the request is a positive integer.
LengthUsable ==
  /\ "Content-Length" \in DOMAIN request.headers
  /\ int(request.headers["Content-Length"]).ok
  /\ int(request.headers["Content-Length"]).val > 0

\* The request's body is a JSON object: its envelope.
HasEnvelope == LengthUsable /\ request.body.json /\ request.body.value.t = "obj"
Envelope == request.body.value.o

\* The id of the request: that of its envelope, null if it has none.
RequestId == IF HasEnvelope /\ "id" \in DOMAIN Envelope THEN Envelope.id ELSE JNull

\* The result a tool handler returned.
ToolResult == response.body.result.content[1]

SandboxViolation == IsError /\ ErrorMessage = "Path outside allowed directory"
MalformedHeader ==
  IsError /\ ErrorMessage = "Malformed update header (no newline after file path)"
Unclosed == IsError /\ ErrorMessage = "Unclosed patch block (missing '*** End Patch')"
PatchMissing == IsError /\ ErrorMessage = "Patch missing '*** Begin Patch'"

\* ---- C1
\* C1 (as the specification states it): every path validate_path returns is
\* the root or a descendant of it by path components.
C1_Containment ==
  Responded => \A i \in 1..Len(call.seen) : Under(call.seen[i], allowed_directory)

\* ---- C2
\* C2 (as the specification states it): when a call of write_file,
\* create_directory, delete_file or apply_patch ends in a sandbox violation,
\* the filesystem is what it was before the call.
C2_NoPartialMutation ==
  (/\ Posted
   /\ call.ran \in {<<"write_file">>, <<"create_directory">>, <<"delete_file">>, <<"apply_patch">>}
   /\ SandboxViolation)
  => fs = call.before

\* ---- C3
\* C3: the response to a POST carries the id of the request's envelope, and
\* null when the envelope has no id or the body holds no envelope.
C3_IdEcho ==
  Posted => "id" \in DOMAIN response.body /\ response.body.id = RequestId

\* An internal error (the router raised) that still echoes the request's id.
C3_Witness ==
  Posted /\ IsError /\ ErrorCode = -32603 /\ call.routed /\ response.body.id = JNum(7)

\* ---- C4
\* C4 (as the specification states it): a POST whose Content-Length is
\* missing, non-positive or no integer, or whose body is no JSON, is answered
\* with error -32600 and never reaches process_mcp_message.
C4_MalformedIsInvalidRequest ==
  (Posted /\ (~LengthUsable \/ ~request.body.json))
  => IsError /\ ErrorCode = -32600 /\ ~call.routed

\* ---- C5
ToolNames ==
  {"search", "fetch", "write_file", "create_directory", "delete_file", "shell", "apply_patch"}
Methods == {"initialize", "tools/list", "tools/call"}

RequestMethod == get(Envelope, "method", JNull)
RequestParams == or_empty(get(Envelope, "params", JObj(NoKeys)))
RequestTool == get(RequestParams.o, "name", JNull)
KnownMethod == RequestMethod.t = "str" /\ RequestMethod.s \in Methods
KnownTool == RequestTool.t = "str" /\ RequestTool.s \in ToolNames
IsToolsCall == HasEnvelope /\ RequestMethod = JStr("tools/call") /\ RequestParams.t = "obj"

C6_ToolErrors ==
  /\ (Posted /\ call.raised # "")
       => /\ IsError /\ ~IsResult /\ ErrorCode = -32000
          /\ response.body.id = RequestId /\ response.status = 200
  /\ (Posted /\ call.after # "") => response.status \in {200, 400, 500} /\ (IsError \/ IsResult)

\* A sandbox violation answered with the request's id, after a request whose
\* handler raised as well.
C6_Witness ==
  /\ Posted /\ call.raised = "PermissionError" /\ call.after = "FileNotFoundError"
  /\ response.body.id = JNum(7) /\ ErrorCode = -32000

\* ---- C7
\* One closed block of one section, with content, naming a relative path in
\* the root that can be written.
OneSection ==
  /\ ~doc.bare /\ doc.closed /\ Len(doc.blocks) = 1 /\ Len(doc.blocks[1]) = 1
  /\ doc.blocks[1][1].nl
  /\ doc.blocks[1][1].path \in InRootPaths
  /\ ~is_dir(call.before, InRoot(doc.blocks[1][1].path))
  /\ is_dir(call.before, parent(resolve(InRoot(doc.blocks[1][1].path))))

\* C7 (as the specification states it): after a patch of one block with one
\* section naming p, the file p holds exactly the text between the newline
\* ending the header and the end marker, and the call returns [p].
C7_Verbatim ==
  (Posted /\ call.ran = <<"apply_patch">> /\ OneSection)
  => /\ IsResult
     /\ fs[resolve(InRoot(doc.blocks[1][1].path))] = FileNode(doc.blocks[1][1].content)
     /\ ToolResult.updated = <<doc.blocks[1][1].path>>

\* ---- C8
\* The path a section's file is written at.
Target(sec) == resolve(IF isabs(sec.path) THEN sec.path ELSE InRoot(sec.path))

\* C8: when apply_patch succeeds, it has written one file per section of
\* the document, in document order over all blocks; each file whose path no
\* later section names holds the text of its last write; and the updated
\* list has one root-relative entry per section in that order.
C8_DocumentOrder ==
  (Posted /\ call.ran = <<"apply_patch">> /\ IsResult)
  => LET secs == Flatten(doc.blocks)
         w == call.writes
         updated == ToolResult.updated
     IN /\ Len(w) = Len(secs) /\ Len(updated) = Len(secs)
        /\ \A i \in 1..Len(secs) :
             /\ w[i].path = Target(secs[i])
             /\ strip(w[i].text, {NL}) = strip(secs[i].content, {NL})
             /\ InRoot(updated[i]) = w[i].path
             /\ \A j \in 1..Len(secs) : i < j => w[i].at < w[j].at
             /\ (\A j \in (i + 1)..Len(secs) : w[j].path # w[i].path)
                  => fs[w[i].path] = FileNode(w[i].text)

\* Two blocks whose sections write different texts to two paths, the first
\* path named again last.
C8_Witness ==
  /\ Posted /\ IsResult /\ Len(doc.blocks) = 2 /\ Len(call.writes) = 3
  /\ call.writes[1].path = call.writes[3].path
  /\ call.writes[1].path # call.writes[2].path
  /\ call.writes[1].text # call.writes[3].text
  /\ ToolResult.updated = <<<<"a">>, <<"d", SEP, "a">>, <<"a">>>>

\* ---- C9
\* The offset in the patch text of the begin marker of the last block.
LastBegin == Len(Render(doc)) - Len(RenderBlocks(<<doc.blocks[Len(doc.blocks)]>>, doc.closed))
EarlierSections == Flatten(SubSeq(doc.blocks, 1, Len(doc.blocks) - 1))

\* C9: a patch text without begin marker fails and writes nothing; a text
\* whose last block has no end marker fails, with the unclosed-block error
\* once the sections of the earlier blocks are all applied, and no section
\* of that block is written.
C9_UnclosedOrAbsent ==
  /\ (Posted /\ call.ran = <<"apply_patch">> /\ doc.bare)
       => PatchMissing /\ ErrorCode = -32000 /\ call.writes = <<>> /\ fs = call.before
  /\ (Posted /\ call.ran = <<"apply_patch">> /\ ~doc.bare /\ ~doc.closed)
       => /\ IsError /\ ErrorCode = -32000
          /\ \A i \in 1..Len(call.writes) : call.writes[i].at < LastBegin
          /\ Unclosed => Len(call.writes) = Len(EarlierSections)
          /\ EarlierSections = <<>> => Unclosed /\ fs = call.before

\* A closed block whose file is written, then an unclosed block with a
\* section that is not.
C9_Witness ==
  /\ Posted /\ ~doc.bare /\ ~doc.closed /\ Len(doc.blocks) = 2
  /\ Len(doc.blocks[1]) = 1 /\ Len(doc.blocks[2]) = 1 /\ doc.blocks[2][1].nl
  /\ Unclosed /\ Len(call.writes) = 1 /\ fs # call.before

\* ---- C10
\* C10 (as the specification states it): when apply_patch fails on a section
\* whose header line is not followed by a newline, the call has written no
\* file.
C10_MalformedHeaderWritesNothing ==
  (Posted /\ call.ran = <<"apply_patch">> /\ MalformedHeader)
  => call.writes = <<>> /\ fs = call.before

\* ---- C11
\* The child process the call started, if it started one.
Started == Posted /\ call.spawned # <<>>
TheChild == call.spawned[1].child

\* C11 (as the specification states it): when the child outlives the timeout
\* it is killed and the call returns a result with timedOut true, exitCode
\* null and ok false; when the child exits in time the call returns a result
\* with timedOut false, the child's exit code and ok = (exitCode = 0).
C11_TimeoutProtocol ==
  Started =>
    /\ IsResult
    /\ IF TheChild.kind = "timeout"
       THEN /\ call.spawned[1].killed
            /\ ToolResult.timedOut /\ ToolResult.exitCode = JNull /\ ~ToolResult.ok
       ELSE /\ ~ToolResult.timedOut /\ ToolResult.exitCode = JNum(TheChild.code)
            /\ ToolResult.ok = (TheChild.code = 0)

\* ---- C12
IsPrefix(a, b) == Len(a) <= Len(b) /\ SubSeq(b, 1, Len(a)) = a

\* A returned stream is within the budget: at most max characters, the first
\* characters of the text produced, and exactly max if that text is longer.
WithinBudget(returned, produced, max) ==
  /\ len(returned) <= max
  /\ IsPrefix(returned, produced)
  /\ len(produced) > max => len(returned) = max

\* C12 (as the specification states it): in every Execution Result, after
\* an exit or a timeout, stdout and stderr are each at most 200,000
\* characters long, a prefix of the stream the child produced, and exactly
\* 200,000 long when that stream is longer.
C12_OutputBudget ==
  (Started /\ IsResult)
  => /\ WithinBudget(ToolResult.stdout.text, TheChild.stdout, MAX_STDOUT_CHARS)
     /\ WithinBudget(ToolResult.stderr.text, TheChild.stderr, MAX_STDERR_CHARS)

\* C12 (amended): in every Execution Result stdout and stderr are each at
\* most 200,000 characters long.  After an exit each is the budget's prefix
\* of the child's stream decoded as text (universal newlines: CR LF and CR
\* read as LF), exactly 200,000 long when that text is longer.  After a
\* timeout a stream of which nothing was captured is returned as "" (stdout)
\* or as the notice "Timed out after <n>s" (stderr).
C12_OutputBudgetOfText ==
  (Started /\ IsResult)
  => /\ len(ToolResult.stdout.text) <= MAX_STDOUT_CHARS
     /\ len(ToolResult.stderr.text) <= MAX_STDERR_CHARS
     /\ TheChild.kind = "exit" =>
          /\ WithinBudget(ToolResult.stdout.text, read_text(TheChild.stdout), MAX_STDOUT_CHARS)
          /\ WithinBudget(ToolResult.stderr.text, read_text(TheChild.stderr), MAX_STDERR_CHARS)
     /\ (TheChild.kind = "timeout" /\ TheChild.stdout = <<>>) => ToolResult.stdout.text = <<>>
     /\ (TheChild.kind = "timeout" /\ TheChild.stderr = <<>>)
          => ToolResult.stderr.text = <<"Timed out after">>

\* A child that exits after writing more than the budget to stdout and the
\* budget exactly to stderr: stdout is cut to the budget.
C12_Witness ==
  /\ Started /\ IsResult /\ TheChild.kind = "exit"
  /\ len(TheChild.stdout) > MAX_STDOUT_CHARS /\ len(ToolResult.stdout.text) = MAX_STDOUT_CHARS
  /\ ToolResult.stderr.text = TheChild.stderr /\ len(TheChild.stderr) = MAX_STDERR_CHARS

\* ---- C13
\* The request is a fetch of the path the request before wrote with
\* write_file, a path in the root.
FetchOfWritten ==
  /\ Posted /\ call.wrote # <<>> /\ call.ran = <<"fetch">>
  /\ call.wrote[1].path \in InRootPaths
  /\ Called(request).args = [id |-> call.wrote[1].path]

\* C13 (as the specification states it): fetch(p) right after write_file(p, c),
\* p in the root, succeeds and returns text equal to c.
C13_RoundTrip ==
  FetchOfWritten => IsResult /\ ToolResult.text = call.wrote[1].content

\* ---- C14
\* The request is a delete_file of a path, and the canonical path it names.
Deleting == Posted /\ call.ran = <<"delete_file">> /\ get(Called(request).args, "path", <<>>) # <<>>
DeletePath == Called(request).args.path
DeleteTarget == resolve(IF isabs(DeletePath) THEN DeletePath ELSE InRoot(DeletePath))

\* The filesystem is the one before the call without the paths in gone.
Removed(gone) ==
  /\ DOMAIN fs = DOMAIN call.before \ gone
  /\ \A q \in DOMAIN fs : fs[q] = call.before[q]

\* C14: delete_file of a path that does not exist fails (with "Path does not
\* exist" if the path is in the root) and leaves the filesystem unchanged; of an existing file (in the root) it removes that
\* file and nothing else; of an existing directory it removes the directory
\* and its descendants and nothing else.
C14_DeleteSemantics ==
  Deleting =>
    /\ ~exists(call.before, DeleteTarget)
         => /\ IsError /\ ErrorCode = -32000 /\ fs = call.before
            /\ Under(DeleteTarget, allowed_directory) => ErrorMessage = "Path does not exist"
    /\ (exists(call.before, DeleteTarget) /\ Under(DeleteTarget, allowed_directory))
         => /\ IsResult
            /\ IF call.before[DeleteTarget].dir
               THEN /\ ToolResult.type = "directory"
                    /\ Removed({q \in DOMAIN call.before : Under(q, DeleteTarget)})
               ELSE ToolResult.type = "file" /\ Removed({DeleteTarget})

\* A directory is deleted with its descendants, and its sibling is left.
C14_Witness ==
  /\ Deleting /\ IsResult /\ ToolResult.type = "directory"
  /\ Cardinality(DOMAIN call.before) >= Cardinality(DOMAIN fs) + 2
  /\ <<SEP, "r", "x">> \in DOMAIN fs

\* ---- C15
InHeartbeatLoop == conn \in {"sleeping", "pinging"}

\* C15 (as the specification states it): once a write to the peer of the
\* event stream has failed, the heartbeat loop ends.
C15_StreamEnds == stream.failed ~> ~InHeartbeatLoop

\* ---- C16
\* C16 (as the specification states it): a POST that arrives on a
\* connection while another connection holds an event stream in its
\* heartbeat loop eventually gets its response.
C16_Independent ==
  \A w \in WaitingRequests :
    (waiting = w /\ InHeartbeatLoop) ~> (Responded /\ request = w /\ (IsError \/ IsResult))

\* ---- C17
Searched == Posted /\ call.ran = <<"search">>
Query == strip(lower(get(Called(request).args, "query", <<>>)), Whitespace)

\* C17: search returns at most 20 results; with an empty or blank query
\* they are immediate children of the root, as many of them as there are up
\* to 20, and none on an empty root; with another query they are entries
\* below the root.
C17_SearchBound ==
  Searched =>
    /\ IsResult
    /\ Cardinality(ToolResult.results) <= 20
    /\ \A rel \in ToolResult.results : Under(Div(allowed_directory, rel), allowed_directory)
    /\ Query = <<>> =>
         /\ \A rel \in ToolResult.results : parent(Div(allowed_directory, rel)) = allowed_directory
         /\ \A rel \in ToolResult.results : Div(allowed_directory, rel) \in DOMAIN fs
         /\ iterdir(fs, allowed_directory) = {} => ToolResult.results = {}
         /\ Cardinality(ToolResult.results) =
              IF Cardinality(iterdir(fs, allowed_directory)) < 20
              THEN Cardinality(iterdir(fs, allowed_directory)) ELSE 20

\* More than 20 entries match and exactly 20 are returned.
C17_Witness ==
  /\ Searched /\ IsResult
  /\ Cardinality(SearchMatches(fs, get(Called(request).args, "query", <<>>))) > 20
  /\ Cardinality(ToolResult.results) = 20
  /\ Query = <<>>

\* ---- C18
ChildEnv == call.spawned[1].env
BearsCredentials(n) == \E pre \in CredentialPrefixes : StartsWith(upper(n), pre)

\* C18: the environment handed to the child is the server's environment
\* without the variables whose name starts, in whatever case, with AWS_,
\* GCP_, AZURE_, DOCKER_, KUBECONFIG or SSH_; the others keep their values;
\* the server's own environment stays as it was.
C18_ChildEnvironment ==
  /\ environ = ServerEnviron
  /\ Started =>
       /\ DOMAIN ChildEnv = {n \in DOMAIN ServerEnviron : ~BearsCredentials(n)}
       /\ \A n \in DOMAIN ChildEnv : ChildEnv[n] = ServerEnviron[n]

\* A child is started without aws_k, Ssh_A and KUBECONFIG, with SSH, K_AWS_
\* and DOCKER, and with PATH as the server has it.
C18_Witness ==
  /\ Started
  /\ DOMAIN ChildEnv =
       {<<"P", "A", "T", "H">>, <<"S", "S", "H">>, <<"K", "_", "A", "W", "S", "_">>,
        <<"D", "O", "C", "K", "E", "R">>}
  /\ ChildEnv[<<"P", "A", "T", "H">>] = <<"v", "P", "A", "T", "H">>
  /\ DOMAIN environ = DOMAIN ServerEnviron

\* ---- C19
ShellCalled == Posted /\ call.ran = <<"shell">>
ShellArguments == Called(request).args
Workdir ==
  resolve(IF isabs(ShellArguments.workdir) THEN ShellArguments.workdir
          ELSE InRoot(ShellArguments.workdir))

KeyMissing == "command" \notin DOMAIN ShellArguments \/ "workdir" \notin DOMAIN ShellArguments
WorkdirEscapes == ~KeyMissing /\ ~Under(Workdir, allowed_directory)
WorkdirUnusable ==
  ~KeyMissing /\ (~exists(call.before, Workdir) \/ ~is_dir(call.before, Workdir))
CommandUnusable ==
  /\ ~KeyMissing
  /\ ~build_argv(ShellArguments.command).ok \/ build_argv(ShellArguments.command).val = <<>>

\* C19 (as the specification states it): a shell call with a key missing,
\* a workdir outside the root, missing or no directory, a command that is
\* no string or list of strings, or an empty argv fails with an error and
\* starts no child.
C19_ValidatesFirst ==
  ShellCalled /\ (KeyMissing \/ WorkdirEscapes \/ WorkdirUnusable \/ CommandUnusable)
    => IsError /\ call.spawned = <<>>

\* ---- C20
NotAnObject == LengthUsable /\ request.body.json /\ request.body.value.t # "obj"

\* The response to a POST is one envelope with either a result or an error;
\* a failure outside a tool, such as a body that is JSON but no object, is
\* answered with error -32603 and changes nothing.
OneEnvelope ==
  /\ Posted =>
       /\ response.status \in {200, 400, 500}
       /\ response.body.jsonrpc = "2.0" /\ "id" \in DOMAIN response.body
       /\ IsError # IsResult
       /\ response.status = 500 <=> (IsError /\ ErrorCode = -32603)
       /\ response.status = 500 => fs = call.before /\ call.ran = <<>>
  /\ Posted /\ NotAnObject => response.status = 500 /\ response.body.id = JNull

\* C20 (as the specification states it): every POST to / or /sse/ gets
\* one response envelope, with a result or an error and never both, -32603
\* for a failure outside a tool, and the server answers the requests that
\* come after.
C20_OneResponse ==
  /\ []OneEnvelope
  /\ \A w \in WaitingRequests : (waiting = w) ~> (Posted /\ request = w /\ IsError # IsResult)

\* ---- C21
\* C21 (as the specification states it): whatever write_file,
\* create_directory, delete_file and apply_patch calls were made, the root
\* is still there, a directory.
C21_RootPersists == exists(fs, allowed_directory) /\ is_dir(fs, allowed_directory)

\* ---- C22
Reads == Posted /\ call.ran \in {<<"search">>, <<"fetch">>}
Asks(method) == Posted /\ HasEnvelope /\ RequestMethod = JStr(method)

\* C22: search and fetch, answered with a result or with an error, and
\* initialize and tools/list leave the filesystem as it was; the result of
\* initialize and of tools/list is the same value after any requests.
C22_ReadOnly ==
  /\ Reads => fs = call.before /\ call.writes = <<>> /\ call.spawned = <<>>
  /\ Asks("initialize") =>
       /\ fs = call.before /\ call.ran = <<>>
       /\ IsResult /\ response.body.result = InitializeResult
  /\ Asks("tools/list") =>
       /\ fs = call.before /\ call.ran = <<>>
       /\ IsResult /\ response.body.result = [tools |-> ToolCatalog]

\* A fetch answered with an error, on a tree that an earlier request has
\* changed.
C22_Witness ==
  /\ Reads /\ call.ran = <<"fetch">> /\ IsError
  /\ served = 1 /\ fs \notin InitialTrees /\ fs = call.before

====
